---- MODULE Spec2Model ----
(***************************************************************************)
(* fgbdump: the interactive header inspector (render_header_tui) with its  *)
(* view state: the tab selector, the metadata scroll offset, the column    *)
(* table focus, and the reprojection of the header's extent for the Map    *)
(* tab.  One action per step of the draw / read-event loop.                *)
(***************************************************************************)
EXTENDS Integers, Sequences, FiniteSets, TLC

VARIABLES
    header,                \* the decoded flatgeobuf::Header (read-only)
    overflow_checks,       \* build profile: TRUE = debug (overflow panics)
    pc,                    \* position in render_header_tui
    ret,                   \* what render_header_tui returned
    raw_mode,              \* terminal collaborator: raw mode entered
    alternate_screen,      \* terminal collaborator: alternate screen entered
    selected_tab,
    metadata_scroll,
    metadata_scroll_state,
    bbox,
    src_proj_crs_string,
    columns_table_state,   \* TableState.selected : Option<usize>
    columns_scroll_state,
    map_canvas,            \* what the last Map redraw handed to the canvas
    proj_built,            \* the transform library was constructed at least once
    project_outcome,       \* how the last project_to_ratatui_map_crs call ended
    project_calls,         \* calls of project_to_ratatui_map_crs so far
    columns_viewport,      \* content_area.height of the last Columns redraw
    pending,               \* the event read and handled, not yet redrawn
    call_len               \* `len` of the latest direct next / previous call

vars == <<header, overflow_checks, pc, ret, raw_mode, alternate_screen,
          selected_tab, metadata_scroll, metadata_scroll_state, bbox,
          src_proj_crs_string, columns_table_state, columns_scroll_state,
          map_canvas, proj_built, project_outcome, project_calls,
          columns_viewport, pending, call_len>>

---------------------------------------------------------------------------
(* Bounds of the model *)

MaxCols == 3          \* schemas of 0..MaxCols columns
MaxHeight == 8        \* terminal heights 0..MaxHeight
UsizeBits == 6        \* width of usize in the model
MaxProjectCalls == 2  \* project_calls counts up to this and stays there

UsizeMax == 2^UsizeBits - 1

---------------------------------------------------------------------------
(* Option<T> and small helpers *)

None == << >>
Some(x) == <<x>>
IsSome(o) == Len(o) = 1
Unwrap(o) == o[1]
UnwrapOr(o, d) == IF IsSome(o) THEN o[1] ELSE d

Min(a, b) == IF a <= b THEN a ELSE b

(* usize arithmetic.  A plain `-` or `+` that leaves 0..usize::MAX panics   *)
(* when the build has overflow checks (debug) and wraps otherwise (release).*)
Overflow == 0 - 1

UsizeSub(a, b) ==
    IF a >= b THEN a - b
    ELSE IF overflow_checks THEN Overflow
    ELSE (a - b) % (UsizeMax + 1)

UsizeAdd(a, b) ==
    IF a + b <= UsizeMax THEN a + b
    ELSE IF overflow_checks THEN Overflow
    ELSE (a + b) % (UsizeMax + 1)

SaturatingSub(a, b) == IF a >= b THEN a - b ELSE 0

SaturatingAdd(a, b) == Min(a + b, UsizeMax)

---------------------------------------------------------------------------
(* lib.rs: SelectedTab *)

Tabs == {"Metadata", "Columns", "Map"}

SelectedTab_next_SkipsMap(self) ==
    CASE self = "Metadata" -> "Columns"
      [] self = "Columns"  -> "Metadata"
      [] self = "Map"      -> "Metadata"

SelectedTab_next(self) ==
    CASE self = "Metadata" -> "Columns"
      [] self = "Columns"  -> "Map"
      [] self = "Map"      -> "Metadata"

SelectedTab_previous(self) ==
    CASE self = "Metadata" -> "Map"
      [] self = "Columns"  -> "Metadata"
      [] self = "Map"      -> "Columns"

---------------------------------------------------------------------------
(* lib.rs: ColumnsTableState.  The value is TableState.selected; next and  *)
(* previous yield [panic, selected]: panic when `len - 1` overflows under   *)
(* overflow checks.                                                         *)

ColumnsTableState_new == Some(0)

ColumnsTableState_next_NoWrap(selected, len) ==
    IF IsSome(selected)
    THEN LET i == Unwrap(selected)
             last == UsizeSub(len, 1)
         IN IF last = Overflow
            THEN [panic |-> TRUE, selected |-> selected]
            ELSE [panic |-> FALSE,
                  selected |-> Some(IF i > last THEN 0 ELSE i + 1)]
    ELSE [panic |-> FALSE, selected |-> Some(0)]

ColumnsTableState_next(selected, len) ==
    IF IsSome(selected)
    THEN LET i == Unwrap(selected)
             last == UsizeSub(len, 1)
         IN IF last = Overflow
            THEN [panic |-> TRUE, selected |-> selected]
            ELSE [panic |-> FALSE,
                  selected |-> Some(IF i >= last THEN 0 ELSE i + 1)]
    ELSE [panic |-> FALSE, selected |-> Some(0)]

ColumnsTableState_previous_NoWrap(selected, len) ==
    IF IsSome(selected)
    THEN LET i == Unwrap(selected)
         IN [panic |-> FALSE, selected |-> Some(IF i = 0 THEN 0 ELSE i - 1)]
    ELSE [panic |-> FALSE, selected |-> Some(0)]

ColumnsTableState_previous(selected, len) ==
    IF IsSome(selected)
    THEN LET i == Unwrap(selected)
         IN IF i = 0
            THEN LET last == UsizeSub(len, 1)
                 IN IF last = Overflow
                    THEN [panic |-> TRUE, selected |-> selected]
                    ELSE [panic |-> FALSE, selected |-> Some(last)]
            ELSE [panic |-> FALSE, selected |-> Some(i - 1)]
    ELSE [panic |-> FALSE, selected |-> Some(0)]

---------------------------------------------------------------------------
(* projection.rs: Bbox and the reprojection to the map's CRS *)

(* A CRS identifier "org:code" is the pair <<org, code>>. *)
CrsString(org, code) == <<org, code>>

RATATUI_MAP_CRS == CrsString("EPSG", 4326)

Bbox_new(xmin, ymin, xmax, ymax) ==
    [xmin |-> xmin, ymin |-> ymin, xmax |-> xmax, ymax |-> ymax]

Bbox_from_flatgeobuf_envelope(envelope) ==
    IF Len(envelope) # 4
    THEN [ok |-> FALSE, val |-> None]
    ELSE [ok |-> TRUE,
          val |-> Some([xmin |-> envelope[1], ymin |-> envelope[2],
                        xmax |-> envelope[3], ymax |-> envelope[4]])]

(* The proj library is an external collaborator.  Proj::new_known_crs     *)
(* resolves both identifiers against the definitions it knows (KnownCrs);  *)
(* convert stands for the transform of one point: a fixed map that is not  *)
(* the identity and that rejects a point whose image would leave the       *)
(* longitude / latitude range of the display CRS.                          *)
KnownCrs == {CrsString("EPSG", 4326), CrsString("EPSG", 3857)}

MAX_LONGITUDE_RANGE == <<0 - 180, 180>>
MAX_LATITUDE_RANGE == <<0 - 90, 90>>

Proj_new_known_crs(from, to) == from \in KnownCrs /\ to \in KnownCrs

Proj_convert(point) ==
    LET x == point[1] \div 2
        y == point[2] \div 2
    IN IF /\ x >= MAX_LONGITUDE_RANGE[1] /\ x <= MAX_LONGITUDE_RANGE[2]
          /\ y >= MAX_LATITUDE_RANGE[1] /\ y <= MAX_LATITUDE_RANGE[2]
       THEN [ok |-> TRUE, val |-> <<x, y>>]
       ELSE [ok |-> FALSE, val |-> point]

(* Outcome of Bbox::project_to_ratatui_map_crs:                            *)
(*   tag     "Ok" (returns Ok), "Err" (returns Err), "Panic" (unwrap of a  *)
(*           failed Proj::new_known_crs aborts inside the function)        *)
(*   val     Some([bbox, message]) when Ok                                 *)
(*   proj    the transform library was constructed on this call            *)
Bbox_project_to_ratatui_map_crs_NoFastPath(self, source_crs) ==
    IF ~Proj_new_known_crs(source_crs, RATATUI_MAP_CRS)
    THEN [tag |-> "Panic", val |-> None, proj |-> TRUE]
    ELSE LET lo == Proj_convert(<<self.xmin, self.ymin>>)
             hi == Proj_convert(<<self.xmax, self.ymax>>)
         IN IF ~lo.ok \/ ~hi.ok
            THEN [tag |-> "Err", val |-> None, proj |-> TRUE]
            ELSE [tag |-> "Ok",
                  val |-> Some([bbox |-> Bbox_new(lo.val[1], lo.val[2],
                                                  hi.val[1], hi.val[2]),
                                message |-> <<"Extent of data in", source_crs,
                                              "projected to", RATATUI_MAP_CRS>>]),
                  proj |-> TRUE]

Bbox_project_to_ratatui_map_crs(self, source_crs) ==
    IF source_crs = RATATUI_MAP_CRS
    THEN [tag |-> "Ok",
          val |-> Some([bbox |-> self,
                        message |-> <<"Extent of data in", RATATUI_MAP_CRS>>]),
          proj |-> FALSE]
    ELSE IF ~Proj_new_known_crs(source_crs, RATATUI_MAP_CRS)
    THEN [tag |-> "Panic", val |-> None, proj |-> TRUE]
    ELSE LET lo == Proj_convert(<<self.xmin, self.ymin>>)
             hi == Proj_convert(<<self.xmax, self.ymax>>)
         IN IF ~lo.ok \/ ~hi.ok
            THEN [tag |-> "Err", val |-> None, proj |-> TRUE]
            ELSE [tag |-> "Ok",
                  val |-> Some([bbox |-> Bbox_new(lo.val[1], lo.val[2],
                                                  hi.val[1], hi.val[2]),
                                message |-> <<"Extent of data in", source_crs,
                                              "projected to", RATATUI_MAP_CRS>>]),
                  proj |-> TRUE]

---------------------------------------------------------------------------
(* The decoded header records the session may be started with *)

Envelopes ==
    { None,                                   \* no extent in the header
      Some(<<0, 0>>),                         \* an envelope of the wrong length
      Some(<<0 - 10, 0 - 5, 10, 5>>),
      Some(<<10, 5, 0 - 10, 0 - 5>>),         \* upstream does not order corners
      Some(<<0 - 400, 0 - 5, 10, 5>>),        \* first corner outside the domain
      Some(<<0 - 10, 0 - 5, 10, 400>>) }      \* second corner outside the domain

CrsDescriptors ==
    { None,                                   \* no CRS in the header
      Some([org |-> None, code |-> 4326]),    \* CRS without an organization
      Some([org |-> Some("EPSG"), code |-> 4326]),
      Some([org |-> Some("EPSG"), code |-> 3857]),
      Some([org |-> Some("EPSG"), code |-> 0]) }   \* unknown definition

Headers ==
    [columns : 0..MaxCols, envelope : Envelopes, crs : CrsDescriptors]

(* Number of lines the Metadata tab assembles: 8 fixed, a blank and four   *)
(* dimension flags, the CRS block (blank + 6) or one "CRS: Undefined"      *)
(* line, a blank and the custom metadata line.                             *)
MetadataLines(h) == 8 + 5 + (IF IsSome(h.crs) THEN 7 ELSE 1) + 2

ScrollbarState_default == [content_length |-> 0, position |-> 0]

---------------------------------------------------------------------------
(* render_header_tui *)

Init ==
    /\ header \in Headers
    /\ overflow_checks \in BOOLEAN
    /\ pc = "setup"
    /\ ret = "None"
    /\ raw_mode = FALSE
    /\ alternate_screen = FALSE
    /\ selected_tab = "Metadata"
    /\ metadata_scroll = 0
    /\ metadata_scroll_state = ScrollbarState_default
    /\ bbox = None
    /\ src_proj_crs_string = None
    /\ columns_table_state = None
    /\ columns_scroll_state = ScrollbarState_default
    /\ map_canvas = None
    /\ proj_built = FALSE
    /\ project_outcome = "None"
    /\ project_calls = 0
    /\ columns_viewport = None
    /\ pending = "None"
    /\ call_len = None

view_state == <<selected_tab, metadata_scroll, metadata_scroll_state,
                columns_table_state, columns_scroll_state, map_canvas,
                proj_built, project_outcome, project_calls, columns_viewport,
                pending>>

Return(value) ==
    /\ pc' = "returned"
    /\ ret' = value

(* The locals of render_header_tui: they exist while the function runs.   *)
locals == <<selected_tab, metadata_scroll, metadata_scroll_state, bbox,
            src_proj_crs_string, columns_table_state, columns_scroll_state,
            columns_viewport, pending>>

(* What the session did with the reprojector: kept after the return. *)
history == <<map_canvas, proj_built, project_outcome, project_calls>>

(* A return out of the loop drops the frame of render_header_tui. *)
DropLocals ==
    /\ selected_tab' = "Metadata"
    /\ metadata_scroll' = 0
    /\ metadata_scroll_state' = ScrollbarState_default
    /\ bbox' = None
    /\ src_proj_crs_string' = None
    /\ columns_table_state' = None
    /\ columns_scroll_state' = ScrollbarState_default
    /\ columns_viewport' = None
    /\ pending' = "None"

(* Lines 83-112: terminal setup, extraction of the extent and of the CRS,  *)
(* construction of the models.  Every `?` is an early return.              *)
Setup ==
    /\ pc = "setup"
    /\ \E io \in {"ok", "enable_raw_mode", "EnterAlternateScreen", "Terminal::new"} :
        /\ raw_mode' = (io # "enable_raw_mode")
        /\ alternate_screen' = (io \notin {"enable_raw_mode", "EnterAlternateScreen"})
        /\ IF io # "ok"
           THEN /\ Return("Err(io)")
                /\ UNCHANGED <<bbox, src_proj_crs_string, columns_table_state>>
           ELSE IF ~IsSome(header.envelope)
           THEN /\ Return("Err(no envelope)")
                /\ UNCHANGED <<bbox, src_proj_crs_string, columns_table_state>>
           ELSE IF ~Bbox_from_flatgeobuf_envelope(Unwrap(header.envelope)).ok
           THEN /\ Return("Err(envelope length)")
                /\ UNCHANGED <<bbox, src_proj_crs_string, columns_table_state>>
           ELSE IF ~IsSome(header.crs)
           THEN /\ Return("Err(no crs)")
                /\ bbox' = Bbox_from_flatgeobuf_envelope(Unwrap(header.envelope)).val
                /\ UNCHANGED <<src_proj_crs_string, columns_table_state>>
           ELSE IF ~IsSome(Unwrap(header.crs).org)
           THEN /\ Return("Err(no crs org)")
                /\ bbox' = Bbox_from_flatgeobuf_envelope(Unwrap(header.envelope)).val
                /\ UNCHANGED <<src_proj_crs_string, columns_table_state>>
           ELSE /\ pc' = "draw"
                /\ ret' = ret
                /\ bbox' = Bbox_from_flatgeobuf_envelope(Unwrap(header.envelope)).val
                /\ src_proj_crs_string' =
                      Some(CrsString(Unwrap(Unwrap(header.crs).org),
                                     Unwrap(header.crs).code))
                /\ columns_table_state' = ColumnsTableState_new
    /\ UNCHANGED <<header, overflow_checks, selected_tab, metadata_scroll,
                   metadata_scroll_state, columns_scroll_state, map_canvas,
                   proj_built, project_outcome, project_calls,
                   columns_viewport, pending, call_len>>

(* The frame of one redraw.  Layout: Length(3) for the tab bar, Min(0) for *)
(* the content area.                                                       *)
TABS_HEIGHT == 3
TABLE_CHROME_ROWS == 3
BORDER_ROWS == 2

Heights == 0..MaxHeight

ContentAreaHeight(height) == SaturatingSub(height, TABS_HEIGHT)

(* Lines 194-199: the metadata offset reconciled against the line count *)
ReconcileNoClamp(offset, max_scroll) == offset

Reconcile(offset, max_scroll) == Min(offset, max_scroll)

(* ratatui's stateful Table widget (external), rendered at line 304, keeps *)
(* the selection inside the rows it is given: with a non-empty inner area  *)
(* it selects None for an empty table and the last row for a selection     *)
(* past the end; with an empty inner area it returns before touching it.   *)
Table_render(selected, rows, area_height) ==
    IF SaturatingSub(area_height, BORDER_ROWS) = 0 THEN selected
    ELSE IF rows = 0 THEN None
    ELSE IF IsSome(selected) /\ Unwrap(selected) >= rows THEN Some(rows - 1)
    ELSE selected

(* Lines 224-230: the scroll position derived from the focus *)
ColumnsScroll_NoChrome(content_area, total_rows, selected_opt) ==
    LET visible_rows == content_area
        max_scroll == SaturatingSub(total_rows, visible_rows)
        selected == UnwrapOr(selected_opt, 0)
    IN [visible_rows |-> visible_rows, max_scroll |-> max_scroll,
        scroll_pos |-> Min(selected, max_scroll)]

ColumnsScroll_AtMax(content_area, total_rows, selected_opt) ==
    LET visible_rows == SaturatingSub(content_area, TABLE_CHROME_ROWS)
        max_scroll == SaturatingSub(total_rows, visible_rows)
    IN [visible_rows |-> visible_rows, max_scroll |-> max_scroll,
        scroll_pos |-> max_scroll]

ColumnsScroll(content_area, total_rows, selected_opt) ==
    LET visible_rows == SaturatingSub(content_area, TABLE_CHROME_ROWS)
        max_scroll == SaturatingSub(total_rows, visible_rows)
        selected == UnwrapOr(selected_opt, 0)
    IN [visible_rows |-> visible_rows, max_scroll |-> max_scroll,
        scroll_pos |-> Min(selected, max_scroll)]

running_frame == <<header, overflow_checks, ret, raw_mode, alternate_screen,
                   bbox, src_proj_crs_string, call_len>>

(* content_area is a local of the draw closure: the handler of the next   *)
(* event runs without it.                                                  *)
FrameGone == columns_viewport' = None

(* terminal.draw, Metadata arm (lines 137-216) *)
DrawMetadata ==
    /\ pc = "draw"
    /\ selected_tab = "Metadata"
    /\ LET max_scroll == MetadataLines(header)
           offset == Reconcile(metadata_scroll, max_scroll)
       IN /\ metadata_scroll' = offset
          /\ metadata_scroll_state' =
                [content_length |-> max_scroll + 1, position |-> offset]
    /\ pc' = "read"
    /\ pending' = "None"
    /\ UNCHANGED <<running_frame, selected_tab, columns_table_state,
                   columns_scroll_state, map_canvas, proj_built,
                   project_outcome, project_calls, columns_viewport>>

(* terminal.draw, Columns arm (lines 218-313) *)
DrawColumns ==
    /\ pc = "draw"
    /\ selected_tab = "Columns"
    /\ \E height \in Heights :
        LET content_area == ContentAreaHeight(height)
            total_rows == header.columns
            scroll == ColumnsScroll(content_area, total_rows, columns_table_state)
            selected == UnwrapOr(columns_table_state, 0)
            focused == UsizeAdd(selected, 1)     \* the title's `selected + 1`
        IN IF focused = Overflow
           THEN /\ pc' = "panicked"
                /\ UNCHANGED <<columns_scroll_state, columns_table_state,
                               columns_viewport, pending>>
           ELSE /\ pc' = "read"
                /\ pending' = "None"
                /\ columns_viewport' = Some(content_area)
                /\ columns_scroll_state' =
                      [content_length |-> scroll.max_scroll + 1,
                       position |-> scroll.scroll_pos]
                /\ columns_table_state' =
                      Table_render(columns_table_state, total_rows, content_area)
    /\ UNCHANGED <<running_frame, selected_tab, metadata_scroll,
                   metadata_scroll_state, map_canvas, proj_built,
                   project_outcome, project_calls>>

(* terminal.draw, Map arm (lines 315-321): the reprojection is unwrapped *)
DrawMap ==
    /\ pc = "draw"
    /\ selected_tab = "Map"
    /\ LET r == Bbox_project_to_ratatui_map_crs(Unwrap(bbox),
                                                Unwrap(src_proj_crs_string))
       IN /\ proj_built' = (proj_built \/ r.proj)
          /\ project_outcome' = r.tag
          /\ project_calls' = Min(project_calls + 1, MaxProjectCalls)
          /\ IF r.tag = "Ok"
             THEN /\ pc' = "read"
                  /\ pending' = "None"
                  /\ map_canvas' = r.val
             ELSE /\ pc' = "panicked"
                  /\ UNCHANGED <<map_canvas, pending>>
    /\ UNCHANGED <<running_frame, selected_tab, metadata_scroll,
                   metadata_scroll_state, columns_table_state,
                   columns_scroll_state, columns_viewport>>

(* terminal.draw(...)? at line 323: the backend failed *)
DrawFails ==
    /\ pc = "draw"
    /\ Return("Err(io)")
    /\ DropLocals
    /\ UNCHANGED <<header, overflow_checks, raw_mode, alternate_screen,
                   call_len, history>>

(* event::read()? at line 330 failed *)
ReadFails ==
    /\ pc = "read"
    /\ Return("Err(io)")
    /\ DropLocals
    /\ UNCHANGED <<header, overflow_checks, raw_mode, alternate_screen,
                   call_len, history>>

(* An event that is no key press (release, repeat, resize, mouse): the    *)
(* `if let` at lines 325-330 does not match.                               *)
NotAKeyPress_ActsAsRight ==
    /\ pc = "read"
    /\ selected_tab' = SelectedTab_next(selected_tab)
    /\ pc' = "draw"
    /\ pending' = "NotPress"
    /\ UNCHANGED <<running_frame, metadata_scroll, metadata_scroll_state,
                   columns_table_state, columns_scroll_state, map_canvas,
                   proj_built, project_outcome, project_calls>>
    /\ FrameGone

NotAKeyPress ==
    /\ pc = "read"
    /\ pc' = "draw"
    /\ pending' = "NotPress"
    /\ UNCHANGED <<running_frame, selected_tab, metadata_scroll,
                   metadata_scroll_state, columns_table_state,
                   columns_scroll_state, map_canvas, proj_built,
                   project_outcome, project_calls>>
    /\ FrameGone

KeyRight_ResetsScroll ==
    /\ pc = "read"
    /\ selected_tab' = SelectedTab_next(selected_tab)
    /\ metadata_scroll' = 0
    /\ pc' = "draw"
    /\ pending' = "Press"
    /\ UNCHANGED <<running_frame, metadata_scroll_state,
                   columns_table_state, columns_scroll_state, map_canvas,
                   proj_built, project_outcome, project_calls>>
    /\ FrameGone

KeyRight ==
    /\ pc = "read"
    /\ selected_tab' = SelectedTab_next(selected_tab)
    /\ pc' = "draw"
    /\ pending' = "Press"
    /\ UNCHANGED <<running_frame, metadata_scroll, metadata_scroll_state,
                   columns_table_state, columns_scroll_state, map_canvas,
                   proj_built, project_outcome, project_calls>>
    /\ FrameGone

KeyLeft ==
    /\ pc = "read"
    /\ selected_tab' = SelectedTab_previous(selected_tab)
    /\ pc' = "draw"
    /\ pending' = "Press"
    /\ UNCHANGED <<running_frame, metadata_scroll, metadata_scroll_state,
                   columns_table_state, columns_scroll_state, map_canvas,
                   proj_built, project_outcome, project_calls>>
    /\ FrameGone

(* Lines 366-369 after the break: each step may fail and return early *)
Teardown ==
    \E io \in {"ok", "disable_raw_mode", "LeaveAlternateScreen", "show_cursor"} :
        /\ raw_mode' = (io = "disable_raw_mode")
        /\ alternate_screen' = (io \in {"disable_raw_mode", "LeaveAlternateScreen"})
        /\ Return(IF io = "ok" THEN "Ok" ELSE "Err(teardown io)")

(* Esc, 'q', 'Q', and 'c' with the control modifier *)
QuitKeys == {"Esc", "q", "Q", "Ctrl-c"}

KeyQuit ==
    /\ pc = "read"
    /\ QuitKeys # {}
    /\ Teardown
    /\ DropLocals
    /\ UNCHANGED <<header, overflow_checks, call_len, history>>

(* Down or 'j' *)
KeyDown ==
    /\ pc = "read"
    /\ pending' = "Press"
    /\ CASE selected_tab = "Metadata" ->
              /\ metadata_scroll' = SaturatingAdd(metadata_scroll, 1)
              /\ metadata_scroll_state' =
                    [metadata_scroll_state EXCEPT !.position = metadata_scroll']
              /\ pc' = "draw"
              /\ UNCHANGED columns_table_state
         [] selected_tab = "Columns" ->
              LET r == ColumnsTableState_next(columns_table_state, header.columns)
              IN /\ columns_table_state' = r.selected
                 /\ pc' = IF r.panic THEN "panicked" ELSE "draw"
                 /\ UNCHANGED <<metadata_scroll, metadata_scroll_state>>
         [] OTHER ->
              /\ pc' = "draw"
              /\ UNCHANGED <<metadata_scroll, metadata_scroll_state,
                             columns_table_state>>
    /\ UNCHANGED <<running_frame, selected_tab, columns_scroll_state,
                   map_canvas, proj_built, project_outcome, project_calls>>
    /\ FrameGone

(* Up or 'k' *)
KeyUp ==
    /\ pc = "read"
    /\ pending' = "Press"
    /\ CASE selected_tab = "Metadata" ->
              /\ metadata_scroll' = SaturatingSub(metadata_scroll, 1)
              /\ metadata_scroll_state' =
                    [metadata_scroll_state EXCEPT !.position = metadata_scroll']
              /\ pc' = "draw"
              /\ UNCHANGED columns_table_state
         [] selected_tab = "Columns" ->
              LET r == ColumnsTableState_previous(columns_table_state, header.columns)
              IN /\ columns_table_state' = r.selected
                 /\ pc' = IF r.panic THEN "panicked" ELSE "draw"
                 /\ UNCHANGED <<metadata_scroll, metadata_scroll_state>>
         [] OTHER ->
              /\ pc' = "draw"
              /\ UNCHANGED <<metadata_scroll, metadata_scroll_state,
                             columns_table_state>>
    /\ UNCHANGED <<running_frame, selected_tab, columns_scroll_state,
                   map_canvas, proj_built, project_outcome, project_calls>>
    /\ FrameGone

(* Any other key press, 'c' without control among them: the `_ => {}` arm *)
KeyOther_NoRedraw ==
    /\ pc = "read"
    /\ pc' = "read"
    /\ pending' = "Press"
    /\ UNCHANGED <<running_frame, selected_tab, metadata_scroll,
                   metadata_scroll_state, columns_table_state,
                   columns_scroll_state, map_canvas, proj_built,
                   project_outcome, project_calls>>
    /\ FrameGone

KeyOther ==
    /\ pc = "read"
    /\ pc' = "draw"
    /\ pending' = "Press"
    /\ UNCHANGED <<running_frame, selected_tab, metadata_scroll,
                   metadata_scroll_state, columns_table_state,
                   columns_scroll_state, map_canvas, proj_built,
                   project_outcome, project_calls>>
    /\ FrameGone

Next ==
    \/ Setup
    \/ DrawMetadata
    \/ DrawColumns
    \/ DrawMap
    \/ DrawFails
    \/ ReadFails
    \/ NotAKeyPress
    \/ KeyRight
    \/ KeyLeft
    \/ KeyQuit
    \/ KeyDown
    \/ KeyUp
    \/ KeyOther

Spec == Init /\ [][Next]_vars

---------------------------------------------------------------------------
(* ColumnsTableState on its own: a caller of the library creates the model *)
(* and calls next / previous directly, each time with a row count of its   *)
(* choice.                                                                 *)

InitTable ==
    /\ header = [columns |-> 0, envelope |-> None, crs |-> None]
    /\ overflow_checks \in BOOLEAN
    /\ pc = "unit"
    /\ ret = "None"
    /\ raw_mode = FALSE
    /\ alternate_screen = FALSE
    /\ selected_tab = "Metadata"
    /\ metadata_scroll = 0
    /\ metadata_scroll_state = ScrollbarState_default
    /\ bbox = None
    /\ src_proj_crs_string = None
    /\ columns_table_state = ColumnsTableState_new
    /\ columns_scroll_state = ScrollbarState_default
    /\ map_canvas = None
    /\ proj_built = FALSE
    /\ project_outcome = "None"
    /\ project_calls = 0
    /\ columns_viewport = None
    /\ pending = "None"
    /\ call_len = None

table_frame == <<header, overflow_checks, ret, raw_mode, alternate_screen,
                 selected_tab, metadata_scroll, metadata_scroll_state, bbox,
                 src_proj_crs_string, columns_scroll_state, map_canvas,
                 proj_built, project_outcome, project_calls, columns_viewport,
                 pending>>

CallNext ==
    /\ pc = "unit"
    /\ \E len \in 0..MaxCols :
        LET r == ColumnsTableState_next(columns_table_state, len)
        IN /\ columns_table_state' = r.selected
           /\ call_len' = Some(len)
           /\ pc' = IF r.panic THEN "panicked" ELSE "unit"
    /\ UNCHANGED table_frame

CallPrevious ==
    /\ pc = "unit"
    /\ \E len \in 0..MaxCols :
        LET r == ColumnsTableState_previous(columns_table_state, len)
        IN /\ columns_table_state' = r.selected
           /\ call_len' = Some(len)
           /\ pc' = IF r.panic THEN "panicked" ELSE "unit"
    /\ UNCHANGED table_frame

NextTable ==
    \/ CallNext
    \/ CallPrevious

SpecTable == InitTable /\ [][NextTable]_vars

---------------------------------------------------------------------------
(* Properties *)

(* The session is in its loop: the models exist and no exit was taken. *)
Running == pc \in {"draw", "read"}

FocusInRange(selected, n) ==
    IF n > 0
    THEN IsSome(selected) /\ Unwrap(selected) >= 0 /\ Unwrap(selected) < n
    ELSE selected = None

(* The precondition of a reprojection failure: the source CRS is not the   *)
(* display CRS and either it cannot be resolved or a corner is rejected.   *)
ReprojectionFails(b, source_crs) ==
    /\ source_crs # RATATUI_MAP_CRS
    /\ \/ ~Proj_new_known_crs(source_crs, RATATUI_MAP_CRS)
       \/ ~Proj_convert(<<b.xmin, b.ymin>>).ok
       \/ ~Proj_convert(<<b.xmax, b.ymax>>).ok

(* C1: for every row count n >= 0 and every sequence of next / previous    *)
(* calls with that n on a fresh ColumnsTableState, the focused index is in *)
(* [0, n) when n > 0 and is None when n = 0.                               *)
C1_FocusStaysInRange ==
    Running => FocusInRange(columns_table_state, header.columns)

(* C2: with an empty schema a Down or Up key on the Columns tab leaves the *)
(* focus unchanged, does no out-of-range arithmetic and keeps the session  *)
(* running.                                                                *)
C2_EmptySchemaKeysAreNoOps ==
    [][ (header.columns = 0 /\ selected_tab = "Columns" /\ (KeyDown \/ KeyUp))
            => (columns_table_state' = columns_table_state /\ pc' = "draw")
      ]_vars

(* C3: tab cycling is closed over {Metadata, Columns, Map}: from the       *)
(* active tab three next steps return to it, previous undoes next and next *)
(* undoes previous, along the cycle Metadata -> Columns -> Map -> Metadata.*)
C3_TabCycleClosed ==
    /\ selected_tab \in Tabs
    /\ SelectedTab_next(selected_tab) \in Tabs
    /\ SelectedTab_previous(selected_tab) \in Tabs
    /\ SelectedTab_next(SelectedTab_next(SelectedTab_next(selected_tab))) = selected_tab
    /\ SelectedTab_previous(SelectedTab_next(selected_tab)) = selected_tab
    /\ SelectedTab_next(SelectedTab_previous(selected_tab)) = selected_tab
    /\ SelectedTab_next(selected_tab) =
          (IF selected_tab = "Metadata" THEN "Columns"
           ELSE IF selected_tab = "Columns" THEN "Map" ELSE "Metadata")

C3_Witness == pc = "draw" /\ selected_tab = "Map"

(* C4: with n > 0 rows and a focus f in [0, n), next then previous returns *)
(* to f and previous then next returns to f, also across the wrap.         *)
C4_RoundTrip ==
    (Running /\ header.columns > 0
             /\ FocusInRange(columns_table_state, header.columns)) =>
        LET n == header.columns
            advanced == ColumnsTableState_next(columns_table_state, n)
            retreated == ColumnsTableState_previous(columns_table_state, n)
        IN /\ ~advanced.panic
           /\ ~retreated.panic
           /\ ColumnsTableState_previous(advanced.selected, n) =
                 [panic |-> FALSE, selected |-> columns_table_state]
           /\ ColumnsTableState_next(retreated.selected, n) =
                 [panic |-> FALSE, selected |-> columns_table_state]

C4_Witness ==
    /\ pc = "draw"
    /\ selected_tab = "Columns"
    /\ header.columns = MaxCols
    /\ columns_table_state = Some(MaxCols - 1)

(* C5: after every redraw the metadata offset is at most the number of     *)
(* metadata lines L, whatever scroll keys came before, and scrolling up at *)
(* offset 0 leaves the offset at 0.                                        *)
C5_MetadataOffsetClamped ==
    [][ /\ pc' = "read" => metadata_scroll' <= MetadataLines(header)
        /\ (KeyUp /\ selected_tab = "Metadata" /\ metadata_scroll = 0)
              => metadata_scroll' = 0
      ]_vars

C5_Witness ==
    /\ pc = "read"
    /\ selected_tab = "Metadata"
    /\ metadata_scroll = MetadataLines(header)
    /\ metadata_scroll_state =
          [content_length |-> MetadataLines(header) + 1,
           position |-> MetadataLines(header)]

(* C6: when the source CRS is the display CRS the Map tab gets the stored  *)
(* box with the same four coordinates and the label of the display CRS,    *)
(* and the transform library is never constructed.                         *)
C6_IdentityFastPath ==
    (IsSome(map_canvas) /\ src_proj_crs_string = Some(RATATUI_MAP_CRS)) =>
        /\ Unwrap(map_canvas).bbox = Unwrap(bbox)
        /\ Unwrap(map_canvas).bbox =
              Bbox_new(Unwrap(header.envelope)[1], Unwrap(header.envelope)[2],
                       Unwrap(header.envelope)[3], Unwrap(header.envelope)[4])
        /\ Unwrap(map_canvas).message = <<"Extent of data in", RATATUI_MAP_CRS>>
        /\ project_outcome = "Ok"
        /\ ~proj_built

C6_Witness ==
    /\ pc = "read"
    /\ selected_tab = "Map"
    /\ src_proj_crs_string = Some(RATATUI_MAP_CRS)
    /\ IsSome(map_canvas)
    /\ Unwrap(map_canvas).bbox = Bbox_new(0 - 10, 0 - 5, 10, 5)

(* C7: when the source CRS cannot be resolved or the transform rejects a   *)
(* corner, the reprojector returns an error to its caller: it neither      *)
(* returns a box nor aborts.                                               *)
C7_FailureIsReturned ==
    (project_outcome # "None"
        /\ ReprojectionFails(Unwrap(bbox), Unwrap(src_proj_crs_string)))
      => project_outcome = "Err"

(* C8: when the reprojection of the extent fails, selecting the Map tab    *)
(* does not end the session.                                               *)
C8_MapFailureKeepsSession ==
    (selected_tab = "Map" /\ IsSome(bbox) /\ IsSome(src_proj_crs_string)
        /\ ReprojectionFails(Unwrap(bbox), Unwrap(src_proj_crs_string)))
      => pc # "panicked"

(* C9: a header without a bounding box does not end the session: the       *)
(* session is not returned from on account of the missing extent.          *)
C9_MissingExtentKeepsSession ==
    ~IsSome(header.envelope) => ~(pc = "returned" /\ ret = "Err(no envelope)")

(* C10: a header with an extent but without a CRS, or with a CRS without   *)
(* an organization, does not end the session.                              *)
C10_MissingCrsKeepsSession ==
    (IsSome(header.envelope)
        /\ (~IsSome(header.crs) \/ ~IsSome(Unwrap(header.crs).org)))
      => ~(pc = "returned" /\ ret \in {"Err(no crs)", "Err(no crs org)"})

(* C11: render_header_tui does not return with the terminal still in raw  *)
(* mode or on the alternate screen, whatever the exit path (a failure of   *)
(* the teardown itself set aside).                                         *)
C11_TerminalRestoredOnReturn ==
    (pc = "returned" /\ ret # "Err(teardown io)")
      => (~raw_mode /\ ~alternate_screen)

(* C12: the Columns redraw computes, for content-area height h, n rows and *)
(* focus f, visible_rows = max(0, h - 3), max_scroll = max(0, n - visible) *)
(* and scroll offset min(f, max_scroll); n = 5, 3 visible rows and f = 4   *)
(* give offset 2.                                                          *)
C12_DerivedScrollOffset ==
    /\ (pc = "read" /\ selected_tab = "Columns") =>
          LET h == Unwrap(columns_viewport)
              n == header.columns
              f == UnwrapOr(columns_table_state, 0)
              visible_rows == IF h - 3 > 0 THEN h - 3 ELSE 0
              max_scroll_offset == IF n - visible_rows > 0 THEN n - visible_rows ELSE 0
          IN /\ IsSome(columns_viewport)
             /\ columns_scroll_state.position =
                   (IF f < max_scroll_offset THEN f ELSE max_scroll_offset)
             /\ columns_scroll_state.content_length = max_scroll_offset + 1
    /\ ColumnsScroll(3 + 3, 5, Some(4)) =
          [visible_rows |-> 3, max_scroll |-> 2, scroll_pos |-> 2]

C12_Witness ==
    /\ pc = "read"
    /\ selected_tab = "Columns"
    /\ header.columns = MaxCols
    /\ columns_viewport = Some(TABLE_CHROME_ROWS + 2)
    /\ columns_table_state = Some(MaxCols - 1)
    /\ columns_scroll_state.position = MaxCols - 2

(* C13: with n > 0 rows and a focus f in [0, n), Down on the Columns tab   *)
(* sets the focus to (f + 1) mod n and Up sets it to (f - 1) mod n.        *)
C13_AdvanceRetreatModulo ==
    [][ (selected_tab = "Columns" /\ header.columns > 0
            /\ FocusInRange(columns_table_state, header.columns)) =>
          LET n == header.columns
              f == Unwrap(columns_table_state)
          IN /\ KeyDown => (columns_table_state' = Some((f + 1) % n)
                              /\ pc' = "draw")
             /\ KeyUp => (columns_table_state' = Some((f + n - 1) % n)
                              /\ pc' = "draw")
      ]_vars

C13_Witness ==
    /\ pc = "draw"
    /\ pending = "Press"
    /\ selected_tab = "Columns"
    /\ header.columns = MaxCols
    /\ columns_table_state = Some(0)
    /\ columns_scroll_state.position = MaxCols - 1

(* C14: whatever focus is stored (one in range for a larger row count      *)
(* included), after next(n) or previous(n) with n > 0 the stored focus is  *)
(* in [0, n).                                                              *)
C14_RevalidatesAgainstRowCount ==
    [][ ((CallNext \/ CallPrevious)
            /\ IsSome(columns_table_state)
            /\ Unwrap(columns_table_state) < MaxCols
            /\ Unwrap(call_len') > 0)
          => FocusInRange(columns_table_state', Unwrap(call_len'))
      ]_vars

(* C15: at every redraw of the Columns tab with n > 0 rows the focused row *)
(* lies in the visible window: offset <= focus < offset + visible_rows.    *)
C15_FocusInWindow ==
    (pc = "read" /\ selected_tab = "Columns" /\ header.columns > 0) =>
        LET f == UnwrapOr(columns_table_state, 0)
            visible_rows == SaturatingSub(Unwrap(columns_viewport), 3)
            offset == columns_scroll_state.position
        IN offset <= f /\ f < offset + visible_rows

(* C15 as amended: the same, at every redraw whose viewport shows at least *)
(* one row (visible_rows > 0).                                             *)
C15_FocusInWindowWhenRowsVisible ==
    (pc = "read" /\ selected_tab = "Columns" /\ header.columns > 0
        /\ SaturatingSub(Unwrap(columns_viewport), 3) > 0) =>
        LET f == UnwrapOr(columns_table_state, 0)
            visible_rows == SaturatingSub(Unwrap(columns_viewport), 3)
            offset == columns_scroll_state.position
        IN offset <= f /\ f < offset + visible_rows

C15_Witness ==
    /\ pc = "read"
    /\ selected_tab = "Columns"
    /\ header.columns = MaxCols
    /\ columns_viewport = Some(TABLE_CHROME_ROWS + 1)
    /\ columns_table_state = Some(1)
    /\ columns_scroll_state.position = 1

(* C16: one redraw per event: when an event is read every earlier event    *)
(* has been redrawn, and a redraw happens only for an event that was read  *)
(* (or as the first frame), also when the event changed nothing.           *)
C16_OneRedrawPerEvent ==
    /\ pc = "read" => pending = "None"
    /\ (pc = "draw" /\ pending = "None") =>
          metadata_scroll_state = ScrollbarState_default

C16_Witness ==
    /\ pc = "draw"
    /\ pending = "Press"
    /\ selected_tab = "Metadata"
    /\ metadata_scroll = 0
    /\ metadata_scroll_state =
          [content_length |-> MetadataLines(header) + 1, position |-> 0]

(* C17: a key press changes at most one part of the view state, chosen by  *)
(* the active tab: Left / Right only the tab; Up / Down only the metadata  *)
(* offset on Metadata, only the column focus on Columns, nothing on Map.   *)
C17_OnePartPerKey ==
    [][ /\ (KeyRight \/ KeyLeft) =>
              UNCHANGED <<metadata_scroll, metadata_scroll_state,
                          columns_table_state, columns_scroll_state>>
        /\ ((KeyDown \/ KeyUp) /\ selected_tab = "Metadata") =>
              UNCHANGED <<selected_tab, columns_table_state,
                          columns_scroll_state>>
        /\ ((KeyDown \/ KeyUp) /\ selected_tab = "Columns") =>
              UNCHANGED <<selected_tab, metadata_scroll, metadata_scroll_state>>
        /\ ((KeyDown \/ KeyUp) /\ selected_tab = "Map") =>
              UNCHANGED <<selected_tab, metadata_scroll, metadata_scroll_state,
                          columns_table_state, columns_scroll_state>>
      ]_vars

C17_Witness ==
    /\ pc = "draw"
    /\ pending = "Press"
    /\ selected_tab = "Map"
    /\ metadata_scroll > 0
    /\ columns_table_state = Some(1)

(* C18: the rectangle of the Map tab is computed once and cached: the      *)
(* number of calls of the reprojector in a session, once 1, stays 1.       *)
C18_ProjectedOnce ==
    [][ project_calls = 1 => project_calls' = 1 ]_vars

(* C19: a key press ends the session exactly when it is a quit key: a quit *)
(* key returns from the loop, any other key press leaves it running.       *)
C19_OnlyQuitKeysTerminate ==
    [][ /\ KeyQuit => pc' = "returned"
        /\ (KeyRight \/ KeyLeft \/ KeyDown \/ KeyUp \/ KeyOther) => pc' = "draw"
        /\ pc \in {"returned", "panicked"} => UNCHANGED vars
      ]_vars

(* C20: an event that is not a key press leaves the active tab, the        *)
(* metadata offset and the column focus unchanged and the session running. *)
C20_OnlyPressesCount ==
    [][ NotAKeyPress =>
          /\ UNCHANGED <<selected_tab, metadata_scroll, columns_table_state>>
          /\ pc' = "draw"
      ]_vars

C20_Witness ==
    /\ pc = "draw"
    /\ pending = "NotPress"
    /\ selected_tab = "Columns"
    /\ metadata_scroll > 0
    /\ columns_table_state = Some(1)

(* C21: every redraw of the Metadata tab leaves the metadata offset in     *)
(* [0, max(0, L - 1)] for the L lines it assembled: the offset never       *)
(* equals L.                                                               *)
C21_MetadataOffsetBelowLength ==
    (pc = "read" /\ selected_tab = "Metadata") =>
        LET L == MetadataLines(header)
        IN /\ metadata_scroll >= 0
           /\ metadata_scroll <= (IF L - 1 > 0 THEN L - 1 ELSE 0)

(* C22: every bounding box the Map tab hands to the overlay is ordered,    *)
(* xmin <= xmax and ymin <= ymax, whether it came through the identity     *)
(* path or through the transform of the two corners.                       *)
C22_OverlayBoxOrdered ==
    (pc = "read" /\ selected_tab = "Map" /\ IsSome(map_canvas)) =>
        LET b == Unwrap(map_canvas).bbox
        IN b.xmin <= b.xmax /\ b.ymin <= b.ymax

====
